---- MODULE Spec2Model ----
(***************************************************************************)
(* Model of isbnlabel's main(): Input Collector -> ISBN Normalizer ->      *)
(* Label Generator -> Document Composer (src/src/isbnlabel/main.py).       *)
(*                                                                         *)
(* Strings are sequences of one-character strings, so that canonical(),    *)
(* the check digits and sorted() are computed character by character.      *)
(* The external collaborators (metadata services, barcode renderer, PDF    *)
(* page writer) are nondeterministic: each call either succeeds or raises. *)
(***************************************************************************)
EXTENDS Integers, Sequences, FiniteSets, TLC

VARIABLES
    in_isbns,      \* merged raw inputs (main.py:28-34)
    verbose,       \* args.verbose
    pc,            \* position of main()
    todo,          \* elements of set(in_isbns) the validation loop has not visited yet
    isbns,         \* the Normalizer's output list (main.py:36)
    rejected,      \* values reported by logger.error (main.py:41)
    outdirExists,  \* os.path.isdir(outdir)
    files,         \* outdir/*.png on disk: filename -> sequence of written chunks
    handles,       \* image files currently open
    opened,        \* image files this run has opened (created or truncated)
    gi,            \* index of the Generator loop in isbns (1-based)
    line,          \* the last line printed by the Generator loop
    images,        \* the Image Registry, a dict kept in insertion order
    pdfState,      \* the PdfPages writer: "unopened", "open", "closed"
    items,         \* sorted(images.items()) of the Composer loop
    ci,            \* index of the Composer loop in items (1-based)
    pages,         \* pages saved to the writer so far
    pdfDoc,        \* the document at outdir/outfile
    exitCode,      \* "none" while running, 0 on return, 1 on an uncaught exception
    fault,         \* which collaborator raised in this run: "none", "image", "pdf"
    run,           \* number of the current invocation
    prevFiles,     \* files as the previous invocation left them
    prevPdf        \* pdfDoc as the previous invocation left it

vars == <<in_isbns, verbose, pc, todo, isbns, rejected, outdirExists, files, handles,
          opened, gi, line, images, pdfState, items, ci, pages, pdfDoc, exitCode,
          fault, run, prevFiles, prevPdf>>

(***************************************************************************)
(* Bounds                                                                  *)
(***************************************************************************)
MaxInputs == 2
MaxRuns == 2

(***************************************************************************)
(* Characters and strings                                                  *)
(***************************************************************************)
Digits == <<"0", "1", "2", "3", "4", "5", "6", "7", "8", "9">>

\* The characters that occur, in code point order.
CodeOrder == <<" ", "-", ".", "0", "1", "2", "3", "4", "5", "6", "7", "8", "9", "X",
               "a", "b", "g", "i", "n", "o", "p", "s", "t", "x">>

Range(s) == {s[i] : i \in 1..Len(s)}

IsDigit(c) == c \in Range(Digits)

\* int(x) of a single digit
DigitVal(c) == CHOOSE d \in 0..9 : Digits[d + 1] = c

DigitChar(d) == Digits[d + 1]

Ord(c) == CHOOSE i \in 1..Len(CodeOrder) : CodeOrder[i] = c

\* Python's str < str: lexicographic by code point, a proper prefix first.
RECURSIVE StrLessFrom(_, _, _)
StrLessFrom(a, b, i) ==
    IF i > Len(a) THEN i <= Len(b)
    ELSE IF i > Len(b) THEN FALSE
    ELSE IF a[i] = b[i] THEN StrLessFrom(a, b, i + 1)
    ELSE Ord(a[i]) < Ord(b[i])

StrLess(a, b) == StrLessFrom(a, b, 1)

\* str.find(c): the 0-based index of the first occurrence, -1 when there is none.
Find(s, c) ==
    IF c \in Range(s) THEN (CHOOSE i \in 1..Len(s) : s[i] = c /\ \A j \in 1..(i - 1) : s[j] # c) - 1
    ELSE -1

AllDigits(s) == \A i \in 1..Len(s) : IsDigit(s[i])

(***************************************************************************)
(* isbnlib                                                                 *)
(***************************************************************************)
KeepChars == Range(Digits) \cup {"X", "x"}

SpecialCases == {
    <<"0", "0", "0", "0", "0", "0", "0", "0", "0", "0">>,
    <<"0", "0", "0", "0", "0", "0", "0", "0", "0", "0", "0", "0", "0">>,
    <<"0", "0", "0", "0", "0", "0", "0", "0", "0", "X">>}

\* canonical(isbnlike): keep only digits and X; '' for the filtered special cases.
canonical(isbnlike) ==
    LET Kept(c) == c \in KeepChars
        numb == SelectSeq(isbnlike, Kept)
        isbn == IF Len(numb) > 0 /\ numb[Len(numb)] = "x"
                THEN [numb EXCEPT ![Len(numb)] = "X"]
                ELSE numb
    IN  IF \/ (Len(isbn) > 0 /\ Len(isbn) \notin {10, 13})
           \/ isbn \in SpecialCases
           \/ Find(isbn, "X") \notin {9, -1}
           \/ Find(isbn, "x") # -1
        THEN <<>>
        ELSE isbn

\* sum((i + 2) * int(x) for i, x in enumerate(reversed(firstninedigits)))
Sum10(s) ==
    LET acc[k \in 0..Len(s)] == IF k = 0 THEN 0 ELSE acc[k - 1] + (11 - k) * DigitVal(s[k])
    IN  acc[Len(s)]

check_digit10(firstninedigits) ==
    IF Len(firstninedigits) # 9 \/ ~AllDigits(firstninedigits) THEN <<>>
    ELSE LET remainder == Sum10(firstninedigits) % 11
             tenthdigit == IF remainder = 0 THEN 0 ELSE 11 - remainder
         IN  IF tenthdigit # 10 THEN <<DigitChar(tenthdigit)>> ELSE <<"X">>

\* sum((i % 2 * 2 + 1) * int(x) for i, x in enumerate(firsttwelvedigits))
Sum13(s) ==
    LET acc[k \in 0..Len(s)] ==
            IF k = 0 THEN 0 ELSE acc[k - 1] + (((k - 1) % 2) * 2 + 1) * DigitVal(s[k])
    IN  acc[Len(s)]

check_digit13(firsttwelvedigits) ==
    IF Len(firsttwelvedigits) # 12 \/ ~AllDigits(firsttwelvedigits) THEN <<>>
    ELSE LET thirteenthdigit == 10 - (Sum13(firsttwelvedigits) % 10)
         IN  IF thirteenthdigit = 10 THEN <<"0">> ELSE <<DigitChar(thirteenthdigit)>>

is_isbn10(isbn10) ==
    LET c == canonical(isbn10)
    IN  /\ Len(c) = 10
        /\ check_digit10(SubSeq(c, 1, 9)) = <<c[10]>>

is_isbn13(isbn13) ==
    LET c == canonical(isbn13)
    IN  /\ Len(c) = 13
        /\ SubSeq(c, 1, 3) \in {<<"9", "7", "8">>, <<"9", "7", "9">>}
        /\ check_digit13(SubSeq(c, 1, 12)) = <<c[13]>>

to_isbn13(isbn10) ==
    LET c == canonical(isbn10)
    IN  IF Len(c) = 13 /\ is_isbn13(c) THEN c
        ELSE IF ~is_isbn10(c) THEN <<>>
        ELSE LET isbn13 == <<"9", "7", "8">> \o SubSeq(c, 1, 9)
                 check == check_digit13(isbn13)
             IN  IF check # <<>> THEN isbn13 \o check ELSE <<>>

(***************************************************************************)
(* Inputs                                                                  *)
(***************************************************************************)
Isbn10Plain  == <<"0", "3", "0", "6", "4", "0", "6", "1", "5", "2">>
Isbn13Hyphen == <<"9", "7", "8", "-", "0", "-", "3", "0", "6", "-", "4", "0", "6", "1", "5", "-", "7">>
Isbn13Two    == <<"9", "7", "8", "0", "0", "0", "0", "0", "0", "0", "0", "0", "2">>
Isbn13Nine   == <<"9", "7", "8", "0", "0", "0", "0", "0", "0", "0", "0", "1", "9">>
Isbn10X      == <<"0", "8", "0", "4", "4", "2", "9", "5", "7", "X">>
BadChecksum  == <<"9", "7", "8", "0", "3", "0", "6", "4", "0", "6", "1", "5", "8">>
NotAnIsbn    == <<"n", "o", "t", "-", "a", "n", "-", "i", "s", "b", "n">>

\* The raw strings the inputs are drawn from.
RawPool == <<Isbn10Plain, Isbn13Hyphen, Isbn13Two, Isbn13Nine, Isbn10X,
             BadChecksum, NotAnIsbn>>

\* set(in_isbns) discards the order of the raw inputs, so the inputs are drawn
\* in pool order only; an entry may repeat.
InputIndices ==
    UNION {{s \in [1..n -> 1..Len(RawPool)] : \A i \in 1..(n - 1) : s[i] <= s[i + 1]}
           : n \in 0..MaxInputs}

Inputs == {[i \in 1..Len(s) |-> RawPool[s[i]]] : s \in InputIndices}

(***************************************************************************)
(* Files and the Image Registry                                            *)
(***************************************************************************)
\* os.path.join(outdir, isbn + ".png"), outdir being fixed
Filename(isbn) == isbn \o <<".", "p", "n", "g">>

\* What EAN13(isbn, writer=ImageWriter(format="PNG")).write(f) writes.
Png(isbn) == <<"png", isbn>>

\* What a write that raises part-way leaves behind.
Partial(isbn) == <<"partial", isbn>>

NoFiles == [n \in {} |-> <<>>]

ModeAB(fs, filename) == IF filename \in DOMAIN fs THEN fs ELSE (filename :> <<>>) @@ fs

\* open(filename, "wb"): the file is created, or truncated when it exists.
OpenWB(fs, filename) == (filename :> <<>>) @@ fs

WriteChunk(fs, filename, chunk) == [fs EXCEPT ![filename] = Append(@, chunk)]

Keys(d) == {d[i][1] : i \in 1..Len(d)}

\* images[isbn] = filename on a dict: a new key goes last, a known key keeps its place.
DictSet(d, k, v) ==
    IF k \in Keys(d)
    THEN [i \in 1..Len(d) |-> IF d[i][1] = k THEN <<k, v>> ELSE d[i]]
    ELSE Append(d, <<k, v>>)

\* Python's tuple comparison of two (isbn, filename) items.
ItemLess(a, b) == StrLess(a[1], b[1]) \/ (a[1] = b[1] /\ StrLess(a[2], b[2]))

InsertionOrder(d) == d

\* sorted(images.items())
SortedItems(d) == SortSeq(d, ItemLess)

(***************************************************************************)
(* Metadata resolution                                                     *)
(***************************************************************************)
sources == <<"goob", "wiki", "openl">>

\* What one call meta(isbn, service=source) does: raises, returns an empty
\* result, or returns a record.
Outcomes == {"raise", "empty", "record"}

None == <<"None">>

Result(source, outcome) == IF outcome = "record" THEN <<"Record", source>> ELSE <<"Empty">>

\* Python truthiness of a metadata value
Truthy(metadata) == metadata[1] = "Record"

RECURSIVE NoBreakFrom(_, _, _)
NoBreakFrom(outcome, k, st) ==
    IF k > Len(sources) THEN st
    ELSE LET source == sources[k]
             st1 == [st EXCEPT !.source = source, !.queried = Append(@, source)]
         IN  IF outcome[source] = "raise" THEN NoBreakFrom(outcome, k + 1, st1)
             ELSE NoBreakFrom(outcome, k + 1,
                              [st1 EXCEPT !.metadata = Result(source, outcome[source])])

MetaResolveNoBreak(outcome) ==
    NoBreakFrom(outcome, 1, [source |-> "None", metadata |-> None, queried |-> <<>>])

RECURSIVE MetaFrom(_, _, _)
\* for source in sources: try meta(); except: continue; if metadata: break
MetaFrom(outcome, k, st) ==
    IF k > Len(sources) THEN st
    ELSE LET source == sources[k]
             st1 == [st EXCEPT !.source = source, !.queried = Append(@, source)]
         IN  IF outcome[source] = "raise" THEN MetaFrom(outcome, k + 1, st1)
             ELSE LET st2 == [st1 EXCEPT !.metadata = Result(source, outcome[source])]
                  IN  IF Truthy(st2.metadata) THEN st2 ELSE MetaFrom(outcome, k + 1, st2)

\* source = None; metadata = None; then the loop over sources
MetaResolve(outcome) ==
    MetaFrom(outcome, 1, [source |-> "None", metadata |-> None, queried |-> <<>>])

NoOutcome == [s \in Range(sources) |-> "none"]

NoLine == [isbn |-> <<>>, filename |-> <<>>, verbose |-> FALSE, metadata |-> None,
           source |-> "None", queried |-> <<>>, outcome |-> NoOutcome]

(***************************************************************************)
(* Normalizer                                                              *)
(***************************************************************************)
NoConvert(isbn) == isbn

\* if is_isbn10(isbn): isbn = to_isbn13(isbn)
Convert(isbn) == IF is_isbn10(isbn) THEN to_isbn13(isbn) ELSE isbn

NeverRejected(isbn) == FALSE

\* if not is_isbn13(isbn): log and continue
Rejected(isbn) == ~is_isbn13(isbn)

NoDoc == <<"no document">>

Doc(ps) == <<"document", ps>>

\* The state main() starts from, disk excepted.
Start(inputs, v) ==
    /\ in_isbns = inputs
    /\ verbose = v
    /\ pc = "normalize"
    /\ todo = Range(inputs)
    /\ isbns = <<>>
    /\ rejected = {}
    /\ handles = {}
    /\ opened = {}
    /\ gi = 1
    /\ line = NoLine
    /\ images = <<>>
    /\ pdfState = "unopened"
    /\ items = <<>>
    /\ ci = 1
    /\ pages = <<>>
    /\ exitCode = "none"
    /\ fault = "none"

\* outdir is absent, or empty, or holds an image of an earlier use.
Init ==
    /\ \E inputs \in Inputs, v \in BOOLEAN : Start(inputs, v)
    /\ \E disk \in {"absent", "empty", "stale"} :
          /\ outdirExists = (disk # "absent")
          /\ files = IF disk = "stale" THEN (Filename(Isbn13Two) :> <<Png(Isbn13Two)>>)
                     ELSE NoFiles
    /\ pdfDoc = NoDoc
    /\ run = 1
    /\ prevFiles = files
    /\ prevPdf = pdfDoc

\* One iteration of "for isbn in set(in_isbns)": the set is visited in any order.
Normalize ==
    /\ pc = "normalize"
    /\ \E raw \in todo :
          LET isbn == Convert(raw)
          IN  /\ todo' = todo \ {raw}
              /\ rejected' = IF Rejected(isbn) THEN rejected \cup {isbn} ELSE rejected
              /\ isbns' = IF Rejected(isbn) THEN isbns ELSE Append(isbns, canonical(isbn))
    /\ UNCHANGED <<in_isbns, verbose, pc, outdirExists, files, handles, opened, gi, line,
                   images, pdfState, items, ci, pages, pdfDoc, exitCode, fault, run,
                   prevFiles, prevPdf>>

\* if not os.path.isdir(outdir): os.makedirs(outdir, 0o755, exist_ok=True)
MakeDirs ==
    /\ pc = "normalize"
    /\ todo = {}
    /\ outdirExists' = TRUE
    /\ pc' = "generate"
    /\ UNCHANGED <<in_isbns, verbose, todo, isbns, rejected, files, handles, opened, gi,
                   line, images, pdfState, items, ci, pages, pdfDoc, exitCode, fault, run,
                   prevFiles, prevPdf>>

(***************************************************************************)
(* Label Generator                                                         *)
(***************************************************************************)
\* The head of one iteration of "for isbn in isbns": the filename, the metadata
\* lookups of verbose mode, and the printed line.
Announce ==
    /\ pc = "generate"
    /\ gi <= Len(isbns)
    /\ LET isbn == isbns[gi]
       IN  IF verbose
           THEN \E outcome \in [Range(sources) -> Outcomes] :
                   LET r == MetaResolve(outcome)
                   IN  line' = [isbn |-> isbn, filename |-> Filename(isbn),
                                verbose |-> TRUE, metadata |-> r.metadata,
                                source |-> r.source, queried |-> r.queried,
                                outcome |-> outcome]
           ELSE line' = [isbn |-> isbn, filename |-> Filename(isbn), verbose |-> FALSE,
                         metadata |-> None, source |-> "None", queried |-> <<>>,
                         outcome |-> NoOutcome]
    /\ pc' = "open"
    /\ UNCHANGED <<in_isbns, verbose, todo, isbns, rejected, outdirExists, files, handles,
                   opened, gi, images, pdfState, items, ci, pages, pdfDoc, exitCode, fault,
                   run, prevFiles, prevPdf>>

\* with open(filename, "wb") as f
OpenImage ==
    /\ pc = "open"
    /\ files' = OpenWB(files, Filename(isbns[gi]))
    /\ handles' = handles \cup {Filename(isbns[gi])}
    /\ opened' = opened \cup {Filename(isbns[gi])}
    /\ pc' = "write"
    /\ UNCHANGED <<in_isbns, verbose, todo, isbns, rejected, outdirExists, gi, line, images,
                   pdfState, items, ci, pages, pdfDoc, exitCode, fault, run, prevFiles,
                   prevPdf>>

\* open() raises: nothing is opened and the exception leaves main().
OpenImageRaises ==
    /\ pc = "open"
    /\ fault' = "image"
    /\ pc' = "failed"
    /\ exitCode' = 1
    /\ UNCHANGED <<in_isbns, verbose, todo, isbns, rejected, outdirExists, files, handles,
                   opened, gi, line, images, pdfState, items, ci, pages, pdfDoc, run,
                   prevFiles, prevPdf>>

\* EAN13(...).write(f) returns, the with block closes f, images[isbn] = filename.
WriteImage ==
    /\ pc = "write"
    /\ files' = WriteChunk(files, Filename(isbns[gi]), Png(isbns[gi]))
    /\ handles' = handles \ {Filename(isbns[gi])}
    /\ images' = DictSet(images, isbns[gi], Filename(isbns[gi]))
    /\ gi' = gi + 1
    /\ pc' = "generate"
    /\ UNCHANGED <<in_isbns, verbose, todo, isbns, rejected, outdirExists, opened, line,
                   pdfState, items, ci, pages, pdfDoc, exitCode, fault, run, prevFiles,
                   prevPdf>>

RenderCaught ==
    /\ pc = "write"
    /\ fault' = "image"
    /\ handles' = handles \ {Filename(isbns[gi])}
    /\ gi' = gi + 1
    /\ pc' = "generate"
    /\ UNCHANGED <<in_isbns, verbose, todo, isbns, rejected, outdirExists, files, opened,
                   line, images, pdfState, items, ci, pages, pdfDoc, exitCode, run,
                   prevFiles, prevPdf>>

\* EAN13(...) or its write(f) raises, before any byte is written or part-way:
\* the with block closes f and the exception leaves main().
RenderRaises ==
    /\ pc = "write"
    /\ \E written \in {"nothing", "part"} :
          files' = IF written = "part"
                   THEN WriteChunk(files, Filename(isbns[gi]), Partial(isbns[gi]))
                   ELSE files
    /\ fault' = "image"
    /\ handles' = handles \ {Filename(isbns[gi])}
    /\ pc' = "failed"
    /\ exitCode' = 1
    /\ UNCHANGED <<in_isbns, verbose, todo, isbns, rejected, outdirExists, opened, gi, line,
                   images, pdfState, items, ci, pages, pdfDoc, run, prevFiles, prevPdf>>

\* The loop over isbns is exhausted: main() goes on to the Composer.
GenerateDone ==
    /\ pc = "generate"
    /\ gi > Len(isbns)
    /\ pc' = "compose"
    /\ UNCHANGED <<in_isbns, verbose, todo, isbns, rejected, outdirExists, files, handles,
                   opened, gi, line, images, pdfState, items, ci, pages, pdfDoc, exitCode,
                   fault, run, prevFiles, prevPdf>>

(***************************************************************************)
(* Document Composer                                                       *)
(***************************************************************************)
\* with PdfPages(filename) as pdf: the writer opens outdir/outfile anew; the
\* for statement evaluates sorted(images.items()).
OpenPdf ==
    /\ pc = "compose"
    /\ pdfState' = "open"
    /\ pdfDoc' = NoDoc
    /\ items' = SortedItems(images)
    /\ ci' = 1
    /\ pc' = "pages"
    /\ UNCHANGED <<in_isbns, verbose, todo, isbns, rejected, outdirExists, files, handles,
                   opened, gi, line, images, pages, exitCode, fault, run, prevFiles,
                   prevPdf>>

\* One iteration of the page loop: subplots, imread, imshow, savefig.
SavePage ==
    /\ pc = "pages"
    /\ ci <= Len(items)
    /\ pages' = Append(pages, items[ci][1])
    /\ ci' = ci + 1
    /\ UNCHANGED <<in_isbns, verbose, pc, todo, isbns, rejected, outdirExists, files,
                   handles, opened, gi, line, images, pdfState, items, pdfDoc, exitCode,
                   fault, run, prevFiles, prevPdf>>

PageRaisesUnclosed ==
    /\ pc = "pages"
    /\ ci <= Len(items)
    /\ fault' = "pdf"
    /\ pc' = "failed"
    /\ exitCode' = 1
    /\ UNCHANGED <<in_isbns, verbose, todo, isbns, rejected, outdirExists, files, handles,
                   opened, gi, line, images, pdfState, items, ci, pages, pdfDoc, run,
                   prevFiles, prevPdf>>

\* imread or savefig raises inside the with block: PdfPages.__exit__ closes the
\* writer, which finalizes the document with the pages saved so far, and the
\* exception leaves main().
PageRaises ==
    /\ pc = "pages"
    /\ ci <= Len(items)
    /\ fault' = "pdf"
    /\ pdfState' = "closed"
    /\ pdfDoc' = Doc(pages)
    /\ pc' = "failed"
    /\ exitCode' = 1
    /\ UNCHANGED <<in_isbns, verbose, todo, isbns, rejected, outdirExists, files, handles,
                   opened, gi, line, images, items, ci, pages, run, prevFiles, prevPdf>>

\* The page loop is exhausted: the with block closes the writer; return 0.
ClosePdf ==
    /\ pc = "pages"
    /\ ci > Len(items)
    /\ pdfState' = "closed"
    /\ pdfDoc' = Doc(pages)
    /\ pc' = "done"
    /\ exitCode' = 0
    /\ UNCHANGED <<in_isbns, verbose, todo, isbns, rejected, outdirExists, files, handles,
                   opened, gi, line, images, items, ci, pages, fault, run, prevFiles,
                   prevPdf>>

\* main() is invoked again with the same arguments on the same outdir.
RunAgain ==
    /\ pc = "done"
    /\ run < MaxRuns
    /\ run' = run + 1
    /\ prevFiles' = files
    /\ prevPdf' = pdfDoc
    /\ pc' = "normalize"
    /\ todo' = Range(in_isbns)
    /\ isbns' = <<>>
    /\ rejected' = {}
    /\ handles' = {}
    /\ opened' = {}
    /\ gi' = 1
    /\ line' = NoLine
    /\ images' = <<>>
    /\ pdfState' = "unopened"
    /\ items' = <<>>
    /\ ci' = 1
    /\ pages' = <<>>
    /\ exitCode' = "none"
    /\ fault' = "none"
    /\ UNCHANGED <<in_isbns, verbose, outdirExists, files, pdfDoc>>

Next ==
    \/ Normalize
    \/ MakeDirs
    \/ Announce
    \/ OpenImage
    \/ OpenImageRaises
    \/ WriteImage
    \/ RenderRaises
    \/ GenerateDone
    \/ OpenPdf
    \/ SavePage
    \/ PageRaises
    \/ ClosePdf
    \/ RunAgain

Spec == Init /\ [][Next]_vars

(***************************************************************************)
(* Properties                                                              *)
(***************************************************************************)
Terminated == pc \in {"done", "failed"}

Occurrences(s, x) == Cardinality({k \in 1..Len(s) : s[k] = x})

\* The canonical ISBN-13 a raw input stands for, <<>> when it stands for none.
Isbn13Of(raw) ==
    IF is_isbn10(raw) THEN canonical(to_isbn13(raw))
    ELSE IF is_isbn13(raw) THEN canonical(raw)
    ELSE <<>>

ValidIsbns == {Isbn13Of(raw) : raw \in Range(in_isbns)} \ {<<>>}

\* C1: once the validation loop has visited every unique raw input, each valid
\* ISBN of the input, in whatever formattings it was given, has exactly one
\* entry in isbns.
C1_OneEntryPerIsbn ==
    todo = {} => \A isbn \in ValidIsbns : Occurrences(isbns, isbn) = 1

\* C2: the pages are in strictly ascending lexicographic order of their ISBN,
\* and when the Composer has finished there is exactly one page per entry of
\* the Image Registry.
C2_PagesAscending ==
    /\ \A i, j \in 1..Len(pages) : i < j => StrLess(pages[i], pages[j])
    /\ pc = "done" => /\ Len(pages) = Len(images)
                      /\ Range(pages) = Keys(images)

\* C2 witness: two ISBNs generated in descending order, composed in ascending order.
C2_Witness ==
    /\ pc = "done"
    /\ isbns = <<Isbn13Nine, Isbn13Two>>
    /\ pages = <<Isbn13Two, Isbn13Nine>>

\* C3: a run in which no collaborator raises ends with return 0, and its PDF
\* holds exactly one page per distinct valid canonical ISBN of the input and no
\* page for a rejected entry; until then the run always has a next step in
\* which nothing raises.
C3_InvalidDropped ==
    /\ (Terminated /\ fault = "none") =>
          /\ pc = "done"
          /\ exitCode = 0
          /\ pdfState = "closed"
          /\ pdfDoc = Doc(pages)
          /\ Range(pages) = ValidIsbns
          /\ Len(pages) = Cardinality(ValidIsbns)
          /\ Range(pages) \cap rejected = {}
    /\ ~Terminated =>
          \/ pc = "normalize" /\ todo # {}
          \/ ENABLED (MakeDirs \/ Announce \/ OpenImage \/ WriteImage \/ GenerateDone
                         \/ OpenPdf \/ SavePage \/ ClosePdf)

\* C3 witness: a finished run that rejected an entry and kept another.
C3_Witness ==
    /\ pc = "done"
    /\ in_isbns = <<Isbn13Two, NotAnIsbn>>
    /\ rejected = {NotAnIsbn}
    /\ pdfDoc = Doc(<<Isbn13Two>>)

\* C4: every element of isbns is a separator-free 13-digit string that passes
\* ISBN-13 validation; once the validation loop is over, isbns holds the
\* canonical to_isbn13 form of every valid ISBN-10 input and not the 10-digit
\* form; isbns has at most as many entries as there are unique raw inputs.
C4_NormalizerOutput ==
    /\ \A k \in 1..Len(isbns) :
          /\ Len(isbns[k]) = 13
          /\ AllDigits(isbns[k])
          /\ is_isbn13(isbns[k])
    /\ todo = {} =>
          \A raw \in Range(in_isbns) :
             is_isbn10(raw) => /\ canonical(to_isbn13(raw)) \in Range(isbns)
                               /\ canonical(raw) \notin Range(isbns)
                               /\ raw \notin Range(isbns)
    /\ Len(isbns) <= Cardinality(Range(in_isbns))

\* C4 witness: an ISBN-10 with check digit X has been converted.
C4_Witness ==
    /\ todo = {}
    /\ Isbn10X \in Range(in_isbns)
    /\ <<"9", "7", "8", "0", "8", "0", "4", "4", "2", "9", "5", "7", "3">> \in Range(isbns)

\* C5: when opening or rendering an image raises, the run has failed with a
\* non-zero exit code at that ISBN: nothing after it was announced, opened or
\* registered, and the PDF writer was never opened nor the document touched.
C5_RenderErrorFatal ==
    fault = "image" =>
       /\ pc = "failed"
       /\ exitCode = 1
       /\ line.isbn = isbns[gi]
       /\ opened \subseteq {Filename(isbns[k]) : k \in 1..gi}
       /\ Keys(images) \subseteq {isbns[k] : k \in 1..(gi - 1)}
       /\ pdfState = "unopened"
       /\ pages = <<>>
       /\ pdfDoc = prevPdf

\* C5 witness: rendering raised for the first of two ISBNs.
C5_Witness ==
    /\ fault = "image"
    /\ gi = 1
    /\ Len(isbns) = 2
    /\ Filename(isbns[1]) \in opened

\* C6: in verbose mode, the line printed for an ISBN for which no source
\* returned a record reports no metadata and no source.
C6_NoSourceLogged ==
    (line.verbose /\ \A s \in Range(sources) : line.outcome[s] # "record") =>
       /\ ~Truthy(line.metadata)
       /\ line.source = "None"

\* C7: in verbose mode the sources are queried in the order goob, wiki, openl,
\* up to and including the first that returns a record, whose record and name
\* are printed; a source that raises or returns nothing leads to the next one
\* and then to the image of that ISBN. In non-verbose mode nothing is queried.
C7_SourcePriority ==
    /\ ~line.verbose => line.queried = <<>>
    /\ line.verbose =>
          /\ Len(line.queried) \in 1..Len(sources)
          /\ \A k \in 1..Len(line.queried) : line.queried[k] = sources[k]
          /\ \A k \in 1..Len(sources) :
                (/\ line.outcome[sources[k]] = "record"
                 /\ \A j \in 1..(k - 1) : line.outcome[sources[j]] # "record")
                => /\ Len(line.queried) = k
                   /\ line.metadata = <<"Record", sources[k]>>
                   /\ line.source = sources[k]
          /\ (\A s \in Range(sources) : line.outcome[s] # "record")
                => Len(line.queried) = Len(sources)
    /\ pc \in {"open", "write"} => (line.isbn = isbns[gi] /\ line.verbose = verbose)

\* C7 witness: goob raised, wiki won, and the run completed.
C7_Witness ==
    /\ pc = "done"
    /\ line.verbose
    /\ line.outcome["goob"] = "raise"
    /\ line.outcome["wiki"] = "record"
    /\ line.source = "wiki"
    /\ line.queried = <<"goob", "wiki">>

\* C8: when main() has ended and the PDF writer had been opened, the writer is
\* closed and the document is finalized with the pages saved so far; after a
\* failure in the page loop the run has still failed.
C8_WriterClosed ==
    /\ (Terminated /\ pdfState # "unopened") =>
          /\ pdfState = "closed"
          /\ pdfDoc = Doc(pages)
    /\ fault = "pdf" => /\ pdfState = "closed"
                        /\ pc = "failed"
                        /\ exitCode = 1

\* C8 witness: the second page of two raised.
C8_Witness ==
    /\ fault = "pdf"
    /\ Len(items) = 2
    /\ Len(pages) = 1
    /\ pdfState = "closed"

\* C9: a run fails only when a collaborator raises; a completed run leaves one
\* complete image per registry entry and a PDF whose pages are the registry's
\* keys; a completed second run leaves the same images and the same PDF as the
\* run before it.
C9_Idempotent ==
    /\ pc = "failed" => fault # "none"
    /\ pc = "done" =>
          /\ \A isbn \in Keys(images) :
                /\ Filename(isbn) \in DOMAIN files
                /\ files[Filename(isbn)] = <<Png(isbn)>>
          /\ Range(pages) = Keys(images)
          /\ pdfDoc = Doc(pages)
    /\ (pc = "done" /\ run >= 2) =>
          /\ files = prevFiles
          /\ pdfDoc = prevPdf

\* C9 witness: a second completed run with two labels, beside an older image
\* in outdir that is not in the registry.
C9_Witness ==
    /\ pc = "done"
    /\ run = 2
    /\ Len(pages) = 2
    /\ Filename(Isbn13Two) \in DOMAIN files
    /\ Isbn13Two \notin Keys(images)

\* C10: when the run has ended, no image file is open and every image file the
\* run opened holds one complete barcode.
C10_NoPartialFiles ==
    Terminated =>
       /\ handles = {}
       /\ \A f \in opened : Len(files[f]) = 1 /\ files[f][1][1] = "png"

====
